---- MODULE Spec2Model ----
(***************************************************************************)
(* Model of src/sales-optimization.py: the SalesOptimizer class            *)
(* (load_real_data, clean_data, analyze_sales_trends,                      *)
(* generate_visualizations, generate_report) and the __main__ script.      *)
(*                                                                         *)
(* Money is counted in integer cents, so DataFrame.round(2) is rounding    *)
(* to the nearest cent (numpy rounds half to even).  Mean units are kept   *)
(* in hundredths of a unit for the same reason.  Quantile bin edges are    *)
(* kept multiplied by 3, which makes the linear interpolation at the       *)
(* thirds exact.                                                           *)
(***************************************************************************)
EXTENDS Integers, Sequences, FiniteSets, TLC

VARIABLES
    csv,        \* the HTTP response: <<"error">> or <<"ok", rows>>
    mode,       \* "script": the __main__ block runs; "client": a caller drives the object
    pc,         \* "start", "constructed", "analyzed", "visualized", "done", "aborted"
    data,       \* self.data: sequence of rows (<<>> while it is None)
    summary,    \* self.summary: None or the dict of the three aggregates
    dirExists,  \* whether the directory 'reports' exists
    files,      \* names of the files written into 'reports'
    report,     \* the report most recently built by generate_report, or None
    error,      \* exception raised by the most recent call, "None" if it returned
    lastCall    \* name of the most recent call, "none" before the constructor

vars == <<csv, mode, pc, data, summary, dirExists, files, report, error, lastCall>>

(***************************************************************************)
(* Bounds of the checked inputs                                            *)
(***************************************************************************)
MaxRows == 3
MaxStores == 5

None == [none |-> TRUE]

\* Rows of the response; money in cents.  Four families of inputs are drawn:
\*   Promo:  few rows, stores 1..2, one unit a row; pricing and flag vary
\*   Weekly: few rows, stores 1..2, one unit a row; week and pricing vary
\*   Volume: few rows, stores 1..3 selling below base price; units vary
\*   Wide:   one row per store, up to MaxStores stores; units vary
\* Outside Promo the odd-numbered stores are the promoted ones.
Weeks == {20231225, 20240101}
BadWeeks == {20240230}
Pricings == {<<2, 1>>, <<4, 2>>}
WideUnits == {10, 50, 90}

Row(s, w, p, b, u, f) ==
    [store |-> s, week |-> w, price |-> p, base_price |-> b, units |-> u, featured |-> f]

PromoRows ==
    {Row(s, 20240101, pb[1], pb[2], 1, f) : s \in 1..2, pb \in Pricings, f \in {0, 1}}
WeeklyRows ==
    {Row(s, w, pb[1], pb[2], 1, s % 2) : s \in 1..2, w \in Weeks, pb \in Pricings}
VolumeRows == {Row(s, 20240101, 3, 4, u, s % 2) : s \in 1..3, u \in {1, 2, 3}}

SeqsUpTo(S, n) == UNION {[1..k -> S] : k \in 0..n}

WideInputs ==
    UNION {{[i \in 1..k |-> Row(i, 20240101, 3, 1, u[i], i % 2)] : u \in [1..k -> WideUnits]}
           : k \in 1..MaxStores}

BadDateInputs == {<<Row(1, w, 2, 1, 1, 0)>> : w \in BadWeeks}

Inputs ==
    SeqsUpTo(PromoRows, MaxRows) \cup SeqsUpTo(WeeklyRows, MaxRows)
        \cup SeqsUpTo(VolumeRows, MaxRows) \cup WideInputs \cup BadDateInputs

(***************************************************************************)
(* Helpers standing for the pandas / numpy primitives the code calls       *)
(***************************************************************************)
SetCol(r, name, val) ==
    [k \in DOMAIN r \cup {name} |-> IF k = name THEN val ELSE r[k]]

Rows(df) == {df[i] : i \in 1..Len(df)}

RECURSIVE SumCol(_, _)
SumCol(df, col) ==
    IF df = <<>> THEN 0 ELSE df[1][col] + SumCol(Tail(df), col)

Where(df, col, val) == SelectSeq(df, LAMBDA r : r[col] = val)

\* numpy.round / DataFrame.round: n/d rounded to the nearest integer, ties to even
RoundHalfEven(n, d) ==
    LET q == n \div d
        r == n % d
    IN  IF 2 * r < d THEN q
        ELSE IF 2 * r > d THEN q + 1
        ELSE IF q % 2 = 0 THEN q ELSE q + 1

\* mean of a money column, rounded to 2 decimals (cents)
MeanRound2(df, col) == RoundHalfEven(SumCol(df, col), Len(df))
\* mean of a count column, rounded to 2 decimals (hundredths)
MeanRound2Count(df, col) == RoundHalfEven(100 * SumCol(df, col), Len(df))

\* pd.to_datetime(week, format='%Y%m%d')
DaysInMonth(y, m) ==
    IF m \in {4, 6, 9, 11} THEN 30
    ELSE IF m = 2 THEN (IF (y % 4 = 0 /\ y % 100 # 0) \/ y % 400 = 0 THEN 29 ELSE 28)
    ELSE 31

ValidWeek(w) ==
    LET y == w \div 10000
        m == (w \div 100) % 100
        d == w % 100
    IN  m \in 1..12 /\ d >= 1 /\ d <= DaysInMonth(y, m)

to_datetime(w) == <<w \div 10000, (w \div 100) % 100, w % 100>>

DateLess(a, b) ==
    \/ a[1] < b[1]
    \/ a[1] = b[1] /\ a[2] < b[2]
    \/ a[1] = b[1] /\ a[2] = b[2] /\ a[3] < b[3]

\* drop_duplicates(subset=['store', 'week']): rows of one store and week count as equal
RECURSIVE drop_duplicates_by_key(_)
drop_duplicates_by_key(df) ==
    IF df = <<>> THEN <<>>
    ELSE LET init == drop_duplicates_by_key(SubSeq(df, 1, Len(df) - 1))
             last == df[Len(df)]
         IN  IF \E r \in Rows(init) : r.store = last.store /\ r.week = last.week
             THEN init ELSE Append(init, last)

\* DataFrame.drop_duplicates(): keeps the first of the rows equal in all columns
RECURSIVE drop_duplicates(_)
drop_duplicates(df) ==
    IF df = <<>> THEN <<>>
    ELSE LET init == drop_duplicates(SubSeq(df, 1, Len(df) - 1))
             last == df[Len(df)]
         IN  IF last \in Rows(init) THEN init ELSE Append(init, last)

\* the sorted keys of the groupby over the date column
RECURSIVE SortedDates(_)
SortedDates(S) ==
    IF S = {} THEN <<>>
    ELSE LET m == CHOOSE x \in S : \A y \in S : x = y \/ DateLess(x, y)
         IN  <<m>> \o SortedDates(S \ {m})

(***************************************************************************)
(* SalesOptimizer.clean_data                                               *)
(***************************************************************************)
Labels == <<"Low", "Medium", "High">>

\* self.data.groupby('store')['units'].sum()
customer_frequency(df) ==
    [s \in {r.store : r \in Rows(df)} |-> SumCol(Where(df, "store", s), "units")]

\* the totals in ascending order, as Series.quantile sorts them
RECURSIVE SortedTotals(_)
SortedTotals(freq) ==
    IF DOMAIN freq = {} THEN <<>>
    ELSE LET s == CHOOSE x \in DOMAIN freq : \A y \in DOMAIN freq : freq[x] <= freq[y]
         IN  <<freq[s]>> \o SortedTotals([t \in DOMAIN freq \ {s} |-> freq[t]])

\* 3 * (the k/3 quantile of the sorted totals), linear interpolation
Quantile3(sorted, k) ==
    LET pos == k * (Len(sorted) - 1)
        lo == pos \div 3
        fr == pos % 3
    IN  IF fr = 0 THEN 3 * sorted[lo + 1]
        ELSE 3 * sorted[lo + 1] + fr * (sorted[lo + 2] - sorted[lo + 1])

\* the bin edges qcut(q=3) computes: quantiles 0, 1/3, 2/3, 1 (times 3)
QcutBins(freq) == [k \in 1..4 |-> Quantile3(SortedTotals(freq), k - 1)]

\* qcut raises ValueError when there is nothing to cut or the edges repeat
QcutRaises(freq) ==
    \/ DOMAIN freq = {}
    \/ Cardinality({QcutBins(freq)[k] : k \in 1..4}) < 4

\* CutLabel with the labels handed over in descending order
CutLabelDescending(bins, x) ==
    LET ids == IF 3 * x = bins[1] THEN 1
               ELSE Cardinality({k \in 1..4 : bins[k] < 3 * x})
    IN  IF ids = 0 \/ ids = 4 THEN "NaN" ELSE <<"High", "Medium", "Low">>[ids]

\* _bins_to_cuts with right=True, include_lowest=True: searchsorted(side='left'),
\* the lowest edge goes to bin 1, ids 0 and len(bins) are NaN
CutLabel(bins, x) ==
    LET ids == IF 3 * x = bins[1] THEN 1
               ELSE Cardinality({k \in 1..4 : bins[k] < 3 * x})
    IN  IF ids = 0 \/ ids = 4 THEN "NaN" ELSE Labels[ids]

\* pd.qcut(customer_frequency, q=3, labels=['Low', 'Medium', 'High']).to_dict()
qcut(freq) == [s \in DOMAIN freq |-> CutLabel(QcutBins(freq), freq[s])]

AddRevenue(df) == [i \in 1..Len(df) |-> SetCol(df[i], "revenue", df[i].price * df[i].units)]

\* AddProfit with the base price not multiplied by the units
AddProfitPerUnitBase(df) ==
    [i \in 1..Len(df) |-> SetCol(df[i], "profit", df[i].revenue - df[i].base_price)]

AddProfit(df) ==
    [i \in 1..Len(df) |->
        SetCol(df[i], "profit", df[i].revenue - df[i].units * df[i].base_price)]

\* Series.map(dict): a key the dict lacks maps to NaN
AddSegment(df, tiers) ==
    [i \in 1..Len(df) |->
        SetCol(df[i], "customer_segment",
               IF df[i].store \in DOMAIN tiers THEN tiers[df[i].store] ELSE "NaN")]

\* the frame as clean_data leaves it when qcut raises
CleanedUpToMetrics(df) == AddProfit(AddRevenue(drop_duplicates(df)))

clean_data(df) ==
    LET d == CleanedUpToMetrics(df)
        freq == customer_frequency(d)
    IN  IF QcutRaises(freq)
        THEN [error |-> "ValueError", data |-> d]
        ELSE [error |-> "None", data |-> AddSegment(d, qcut(freq))]

(***************************************************************************)
(* SalesOptimizer.load_real_data (run by __init__)                         *)
(***************************************************************************)
AddDate(df) == [i \in 1..Len(df) |-> SetCol(df[i], "date", to_datetime(df[i].week))]

load_real_data(response) ==
    IF response[1] = "error"
    THEN [error |-> "FetchError", data |-> <<>>]
    ELSE IF \E r \in Rows(response[2]) : ~ValidWeek(r.week)
    THEN [error |-> "ParseError", data |-> response[2]]
    ELSE clean_data(AddDate(response[2]))

(***************************************************************************)
(* SalesOptimizer.analyze_sales_trends                                     *)
(***************************************************************************)
\* the dates in the order the rows first show them, as groupby(sort=False) keeps them
RECURSIVE FirstSeenDates(_)
FirstSeenDates(df) ==
    IF df = <<>> THEN <<>>
    ELSE LET init == FirstSeenDates(SubSeq(df, 1, Len(df) - 1))
             d == df[Len(df)].date
         IN  IF \E i \in 1..Len(init) : init[i] = d THEN init ELSE Append(init, d)

\* weekly_sales grouped with sort=False
weekly_sales_unsorted(df) ==
    LET dates == FirstSeenDates(df)
    IN  [i \in 1..Len(dates) |->
            LET g == Where(df, "date", dates[i])
            IN  [date |-> dates[i], revenue |-> SumCol(g, "revenue"),
                 units |-> SumCol(g, "units"), profit |-> SumCol(g, "profit")]]

\* groupby('date').agg(sum).reset_index(): one row per date, dates ascending
weekly_sales(df) ==
    LET dates == SortedDates({r.date : r \in Rows(df)})
    IN  [i \in 1..Len(dates) |->
            LET g == Where(df, "date", dates[i])
            IN  [date |-> dates[i], revenue |-> SumCol(g, "revenue"),
                 units |-> SumCol(g, "units"), profit |-> SumCol(g, "profit")]]

\* groupby sorts the segment labels as strings; NaN keys are dropped
SegmentIndex == <<"High", "Low", "Medium">>

segment_analysis(df) ==
    LET present == SelectSeq(SegmentIndex,
                             LAMBDA l : \E r \in Rows(df) : r.customer_segment = l)
    IN  [i \in 1..Len(present) |->
            LET g == Where(df, "customer_segment", present[i])
            IN  [customer_segment |-> present[i], revenue |-> SumCol(g, "revenue"),
                 units |-> SumCol(g, "units"), profit |-> MeanRound2(g, "profit")]]

\* groupby('featured').agg(mean).round(2), indexed by the flag values present
promo_analysis(df) ==
    [f \in {r.featured : r \in Rows(df)} |->
        LET g == Where(df, "featured", f)
        IN  [units |-> MeanRound2Count(g, "units"), revenue |-> MeanRound2(g, "revenue"),
             profit |-> MeanRound2(g, "profit")]]

analyze_sales_trends(df) ==
    [weekly_sales |-> weekly_sales(df),
     segment_analysis |-> segment_analysis(df),
     promo_analysis |-> promo_analysis(df)]

\* `if not self.summary: self.analyze_sales_trends()`
EnsureSummary(summ, df) == IF summ = None THEN analyze_sales_trends(df) ELSE summ

(***************************************************************************)
(* SalesOptimizer.generate_visualizations                                  *)
(***************************************************************************)
ChartFiles == {"sales_trend.png", "segment_analysis.png", "promo_effectiveness.png"}
ReportFile == "analysis_report.txt"

(***************************************************************************)
(* SalesOptimizer.generate_report                                          *)
(***************************************************************************)
\* Series.idxmax(): the label of the first row holding the maximum
IdxMaxRevenue(seg) ==
    LET i == CHOOSE i \in 1..Len(seg) :
                /\ \A j \in 1..Len(seg) : seg[j].revenue <= seg[i].revenue
                /\ \A j \in 1..(i - 1) : seg[j].revenue < seg[i].revenue
    IN  seg[i].customer_segment

\* PromoBeats with >= in place of >
PromoBeatsOrEqual(promo) == promo[1].profit >= promo[0].profit

\* promo_analysis.loc[1, 'profit'] > promo_analysis.loc[0, 'profit']
PromoBeats(promo) == promo[1].profit > promo[0].profit

\* the f-string of the report; .loc raises KeyError for a missing flag value
BuildReport(df, summ) ==
    IF ~({0, 1} \subseteq DOMAIN summ.promo_analysis)
    THEN [error |-> "KeyError", report |-> None]
    ELSE [error |-> "None",
          report |->
            [total_revenue |-> SumCol(df, "revenue"),
             total_units |-> SumCol(df, "units"),
             average_profit |-> MeanRound2(df, "profit"),
             segment_table |-> summ.segment_analysis,
             promo_table |-> summ.promo_analysis,
             most_valuable |-> IdxMaxRevenue(summ.segment_analysis),
             effectiveness |-> IF PromoBeats(summ.promo_analysis)
                               THEN "Positive" ELSE "Negative",
             focus |-> IdxMaxRevenue(summ.segment_analysis),
             promotions |-> IF PromoBeats(summ.promo_analysis)
                            THEN "Increase" ELSE "Decrease"]]

\* open('reports/analysis_report.txt', 'w') needs the directory
OpenReportFails(exists) == ~exists

(***************************************************************************)
(* The state machine                                                       *)
(***************************************************************************)
Init ==
    /\ csv \in {<<"error">>} \cup {<<"ok", rows>> : rows \in Inputs}
    /\ mode \in {"script", "client"}
    /\ pc = "start"
    /\ data = <<>>
    /\ summary = None
    /\ dirExists = FALSE
    /\ files = {}
    /\ report = None
    /\ error = "None"
    /\ lastCall = "none"

\* SalesOptimizer(): __init__ sets data and summary to None and loads the data
Construct ==
    /\ pc = "start"
    /\ LET r == load_real_data(csv)
       IN  /\ data' = r.data
           /\ error' = r.error
           /\ pc' = IF r.error = "None" THEN "constructed" ELSE "aborted"
    /\ summary' = None
    /\ lastCall' = "__init__"
    /\ UNCHANGED <<csv, mode, dirExists, files, report>>

\* AnalyzeEffect with the promotion filter assigned back to self.data
AnalyzeEffectFilteringData ==
    /\ summary' = analyze_sales_trends(data)
    /\ data' = Where(data, "featured", 1)
    /\ error' = "None"
    /\ lastCall' = "analyze_sales_trends"
    /\ UNCHANGED <<csv, mode, dirExists, files, report>>

\* the effect of one call of each method on the object and the file system
AnalyzeEffect ==
    /\ summary' = analyze_sales_trends(data)
    /\ error' = "None"
    /\ lastCall' = "analyze_sales_trends"
    /\ UNCHANGED <<csv, mode, data, dirExists, files, report>>

VisualizeEffect ==
    /\ summary' = EnsureSummary(summary, data)
    /\ dirExists' = TRUE      \* Path("reports").mkdir(exist_ok=True)
    /\ files' = files \cup ChartFiles
    /\ error' = "None"
    /\ lastCall' = "generate_visualizations"
    /\ UNCHANGED <<csv, mode, data, report>>

ReportEffect ==
    LET summ == EnsureSummary(summary, data)
        r == BuildReport(data, summ)
    IN  /\ summary' = summ
        /\ IF r.error # "None"
           THEN /\ error' = r.error
                /\ UNCHANGED <<files, report>>
           ELSE IF OpenReportFails(dirExists)
           THEN /\ error' = "FileNotFoundError"
                /\ UNCHANGED <<files, report>>
           ELSE /\ error' = "None"
                /\ files' = files \cup {ReportFile}
                /\ report' = r.report
        /\ lastCall' = "generate_report"
        /\ UNCHANGED <<csv, mode, data, dirExists>>

CleanEffect ==
    LET r == clean_data(data)
    IN  /\ data' = r.data
        /\ error' = r.error
        /\ lastCall' = "clean_data"
        /\ UNCHANGED <<csv, mode, summary, dirExists, files, report>>

\* __main__: optimizer.analyze_sales_trends()
MainAnalyze ==
    /\ mode = "script" /\ pc = "constructed"
    /\ AnalyzeEffect
    /\ pc' = "analyzed"

\* __main__: optimizer.generate_visualizations()
MainVisualize ==
    /\ mode = "script" /\ pc = "analyzed"
    /\ VisualizeEffect
    /\ pc' = "visualized"

\* __main__: report = optimizer.generate_report(); an exception ends the run
MainReport ==
    /\ mode = "script" /\ pc = "visualized"
    /\ ReportEffect
    /\ pc' = IF error' = "None" THEN "done" ELSE "aborted"

\* a caller holding a constructed analyzer calls its methods in any order
CallAnalyze ==
    /\ mode = "client" /\ pc = "constructed"
    /\ AnalyzeEffect
    /\ UNCHANGED pc

CallVisualize ==
    /\ mode = "client" /\ pc = "constructed"
    /\ VisualizeEffect
    /\ UNCHANGED pc

CallReport ==
    /\ mode = "client" /\ pc = "constructed"
    /\ ReportEffect
    /\ UNCHANGED pc

CallCleanData ==
    /\ mode = "client" /\ pc = "constructed"
    /\ CleanEffect
    /\ UNCHANGED pc

Next ==
    \/ Construct
    \/ MainAnalyze
    \/ MainVisualize
    \/ MainReport
    \/ CallAnalyze
    \/ CallVisualize
    \/ CallReport
    \/ CallCleanData

Spec == Init /\ [][Next]_vars

(***************************************************************************)
(* Vocabulary of the properties                                            *)
(***************************************************************************)
RawFields == {"store", "week", "price", "base_price", "units", "featured"}
Raw(r) == [k \in RawFields |-> r[k]]
RawRows == IF csv[1] = "ok" THEN csv[2] ELSE <<>>

\* the constructor failed before, or inside, clean_data
LoadFailed == pc = "aborted" /\ error \in {"FetchError", "ParseError", "ValueError"}
\* drop_duplicates and the metric columns of clean_data have been applied to data
MetricsDone == pc # "start" /\ ~(pc = "aborted" /\ error \in {"FetchError", "ParseError"})
\* clean_data has completed normally: data is the cleaned record set
Cleaned == pc # "start" /\ ~LoadFailed

StoresOf(df) == {r.store : r \in Rows(df)}
UnitTotal(s) == SumCol(Where(data, "store", s), "units")
TiersOfStore(s) == {r.customer_segment : r \in {x \in Rows(data) : x.store = s}}
TierOf(s) == CHOOSE t \in TiersOfStore(s) : TRUE
TiersAssigned == {r.customer_segment : r \in Rows(data)}
TierRank(t) == CASE t = "Low" -> 1 [] t = "Medium" -> 2 [] t = "High" -> 3 [] OTHER -> 0
DateKey(d) == d[1] * 10000 + d[2] * 100 + d[3]

RECURSIVE RawRevenue(_)
RawRevenue(S) ==
    IF S = {} THEN 0
    ELSE LET r == CHOOSE x \in S : TRUE
         IN  r.price * r.units + RawRevenue(S \ {r})

(***************************************************************************)
(* Tier assignment (clean_data)                                            *)
(***************************************************************************)
\* C1: after clean_data, a location with a smaller unit total never gets a higher
\* tier than a location with a larger one (Low < Medium < High), and three
\* locations with unit totals 10, 50 and 90 get Low, Medium and High.
C1_TierMonotonic ==
    Cleaned =>
        /\ \A a, b \in StoresOf(data) :
              UnitTotal(a) < UnitTotal(b) => TierRank(TierOf(a)) <= TierRank(TierOf(b))
        /\ (Cardinality(StoresOf(data)) = 3
               /\ {UnitTotal(s) : s \in StoresOf(data)} = {10, 50, 90})
           => \A s \in StoresOf(data) :
                 TierOf(s) = (CASE UnitTotal(s) = 10 -> "Low"
                                [] UnitTotal(s) = 50 -> "Medium"
                                [] UnitTotal(s) = 90 -> "High")

\* three locations with totals 10, 50, 90 have been cleaned and tiered
C1_Witness ==
    /\ Cleaned
    /\ Cardinality(StoresOf(data)) = 3
    /\ {<<UnitTotal(s), TierOf(s)>> : s \in StoresOf(data)}
          = {<<10, "Low">>, <<50, "Medium">>, <<90, "High">>}

\* C2 (as claimed): every cleaned record carries a tier, all records of a location
\* carry the same tier, and whenever three locations with pairwise distinct unit
\* totals exist, each of Low, Medium and High is assigned to some location.
C2_EveryLocationTiered ==
    Cleaned =>
        /\ \A r \in Rows(data) : r.customer_segment \in {"Low", "Medium", "High"}
        /\ \A s \in StoresOf(data) : Cardinality(TiersOfStore(s)) = 1
        /\ (\E a, b, c \in StoresOf(data) :
               /\ UnitTotal(a) # UnitTotal(b)
               /\ UnitTotal(a) # UnitTotal(c)
               /\ UnitTotal(b) # UnitTotal(c))
           => TiersAssigned = {"Low", "Medium", "High"}

\* C3 (as claimed): clean_data never completes normally with fewer than three
\* non-empty tiers or with an untiered record; it aborts instead.
C3_NoGuessedTiers ==
    Cleaned => TiersAssigned = {"Low", "Medium", "High"}

(***************************************************************************)
(* Output files                                                            *)
(***************************************************************************)
\* C4 (as claimed): a run of the script that aborts at any stage has written none
\* of the chart files nor the report.
C4_NoPartialOutput ==
    (mode = "script" /\ pc = "aborted") => files = {}

\* C5 (as claimed): no Reporter operation attempts a file write while the output
\* directory does not exist, whatever the order of the calls.
C5_DirectoryCreatedBeforeWrite ==
    error # "FileNotFoundError"

(***************************************************************************)
(* Deduplication and derived fields (clean_data)                           *)
(***************************************************************************)
DedupState ==
    MetricsDone =>
        /\ \A i, j \in 1..Len(data) : i # j => data[i] # data[j]
        /\ \A i, j \in 1..Len(data) : i # j => Raw(data[i]) # Raw(data[j])
        /\ {Raw(r) : r \in Rows(data)} = Rows(RawRows)
        /\ (Len(RawRows) = 2 /\ RawRows[1] = RawRows[2]) => Len(data) = 1

\* C6: after the deduplication of clean_data no two records agree on all fields,
\* every distinct raw record is present exactly once (two identical input records
\* yield one record), and a further clean_data on its own output completes and
\* removes no record.
C6_Deduplication ==
    /\ []DedupState
    /\ [][lastCall' = "clean_data" => (error' = "None" /\ Len(data') = Len(data))]_vars

\* a duplicate was dropped at construction and clean_data has run again
C6_Witness ==
    /\ lastCall = "clean_data"
    /\ Len(data) < Len(RawRows)

\* C9: every cleaned record has revenue = price * units and
\* profit = revenue - base_price * units, computed on the deduplicated records, so
\* the total revenue is the sum of price * units over the distinct raw records.
C9_DerivedFields ==
    MetricsDone =>
        /\ \A r \in Rows(data) :
              /\ r.revenue = r.price * r.units
              /\ r.profit = r.revenue - r.base_price * r.units
        /\ SumCol(data, "revenue") = RawRevenue(Rows(RawRows))

\* cleaned records selling several units, one of them a dropped duplicate
C9_Witness ==
    /\ Cleaned
    /\ Len(data) < Len(RawRows)
    /\ \E r \in Rows(data) : r.units > 1 /\ r.profit < 0

(***************************************************************************)
(* Aggregates (analyze_sales_trends)                                       *)
(***************************************************************************)
\* C8: the weekly aggregate has one row per distinct timestamp of the cleaned
\* data, in ascending timestamp order, each row holding the sums of revenue, units
\* and profit of that timestamp's records; the weekly revenues add up to the total.
C8_ByWeek ==
    summary # None =>
        LET ws == summary.weekly_sales
        IN  /\ Len(ws) = Cardinality({r.week : r \in Rows(data)})
            /\ \A i, j \in 1..Len(ws) : i < j => DateKey(ws[i].date) < DateKey(ws[j].date)
            /\ \A i \in 1..Len(ws) :
                  LET g == SelectSeq(data, LAMBDA r : r.week = DateKey(ws[i].date))
                  IN  /\ g # <<>>
                      /\ ws[i].revenue = SumCol(g, "revenue")
                      /\ ws[i].units = SumCol(g, "units")
                      /\ ws[i].profit = SumCol(g, "profit")
            /\ SumCol(ws, "revenue") = SumCol(data, "revenue")

\* two weeks aggregated, the later one first in the data, one holding two records
C8_Witness ==
    /\ summary # None
    /\ Len(summary.weekly_sales) = 2
    /\ Len(data) = 3
    /\ data[1].week > data[Len(data)].week

(***************************************************************************)
(* Report (generate_report)                                                *)
(***************************************************************************)
\* C7: the report says "Positive" and recommends "Increase" exactly when the
\* promoted group's mean profit of the promotion aggregate (rounded to 2 decimals)
\* is strictly greater than the non-promoted group's, and otherwise says
\* "Negative" and recommends "Decrease"; the two never disagree.
C7_PromotionJudgement ==
    report # None =>
        LET promoted == Where(data, "featured", 1)
            regular == Where(data, "featured", 0)
            greater == RoundHalfEven(SumCol(promoted, "profit"), Len(promoted))
                         > RoundHalfEven(SumCol(regular, "profit"), Len(regular))
        IN  /\ promoted # <<>> /\ regular # <<>>
            /\ report.effectiveness = (IF greater THEN "Positive" ELSE "Negative")
            /\ report.promotions = (IF greater THEN "Increase" ELSE "Decrease")

\* a report judging the promotions positive has been written
C7_Witness ==
    /\ report # None
    /\ report.effectiveness = "Positive"
    /\ report.promotions = "Increase"
    /\ ReportFile \in files

(***************************************************************************)
(* Frame of the aggregation and reporting operations                       *)
(***************************************************************************)
Readers == {"analyze_sales_trends", "generate_visualizations", "generate_report"}

SummaryFresh ==
    /\ lastCall \in Readers => summary # None
    /\ summary # None => summary = analyze_sales_trends(data)
    /\ report # None =>
          /\ report.segment_table = segment_analysis(data)
          /\ report.promo_table = promo_analysis(data)

\* C10: analyze_sales_trends, generate_visualizations and generate_report leave
\* the cleaned records and every location's tier unchanged, the summary is set
\* after any of them, and the summary always equals the aggregates recomputed
\* from the current cleaned data.
C10_ReadersFrame ==
    /\ []SummaryFresh
    /\ [][lastCall' \in Readers => data' = data]_vars

\* a caller has run the three operations and holds a report
C10_Witness ==
    /\ mode = "client"
    /\ lastCall = "generate_report"
    /\ report # None
    /\ ChartFiles \subseteq files

====
